---------------------------- MODULE Spec2Model ----------------------------
(***************************************************************************)
(* A model of flashcards.py: the text layout of a Flashcard (format_data,  *)
(* style_on_line, get_topic, get_content, get_keywords,                    *)
(* get_lines_to_draw), its draw/run methods, and the session (start,       *)
(* run_flashcards).                                                        *)
(*                                                                         *)
(* A Python str is a sequence of one-character strings; a list of lines is *)
(* a sequence of such sequences.                                           *)
(***************************************************************************)
EXTENDS Integers, Sequences, FiniteSets, TLC

VARIABLES
    pc,           \* position of the program
    records,      \* parsed_file: the records yaml.load returned
    ordered,      \* args.ordered
    flashcards,   \* the list of Flashcard objects
    fc,           \* run_flashcards: index of the card of the outer loop
    pass,         \* run_flashcards: the inner loop's range(2) counter
    events,       \* what the terminal has seen: clear, draw (with the lines
                  \* printed), ack
    line,         \* argument of format_data / style_on_line
    max_length,   \* argument of format_data / style_on_line
    result        \* what format_data / style_on_line returned

vars == <<pc, records, ordered, flashcards, fc, pass, events,
          line, max_length, result>>

---------------------------------------------------------------------------
(* Program constants *)

MAX_WIDTH == 70
MIN_CONTENT_HEIGHT == 6
BORDER == "*"

\* keywords=None. Characters are one-character strings, so this value is
\* different from every str.
None == <<"None">>

\* The ValueError textwrap raises, standing where a list of lines would be
\* returned; no line holds this as a character.
ValueError == << <<"ValueError">> >>

\* 'Press [Enter] to show content'
initial_content ==
    <<"P","r","e","s","s"," ","[","E","n","t","e","r","]"," ","t","o"," ",
      "s","h","o","w"," ","c","o","n","t","e","n","t">>

---------------------------------------------------------------------------
(* Bounds of the model *)

MaxLen == 5          \* longest argument text of format_data / style_on_line
MaxLength == 9       \* largest max_length argument
MaxCards == 2        \* most records in the input file
MaxContentLen == 3   \* longest content / keywords text of a card laid out
MaxCardWidth == 8    \* largest max_card_width of a card laid out
MaxMinHeight == 2    \* largest min_content_height of a card laid out
MaxLongLines == 5    \* most full lines of content under the default layout

---------------------------------------------------------------------------
(* str helpers *)

\* the whitespace characters of the texts: str.split() separates at them,
\* and format_data replaces the last two by hand
Whitespace == {" ", "\n", "\t"}

\* Character classes of textwrap's wordsep_re
Letters ==
    {"a","b","c","d","e","f","g","h","i","j","k","l","m","n","o","p","q",
     "r","s","t","u","v","w","x","y","z","A","B","C","D","E","F","G","H",
     "I","J","K","L","M","N","O","P","Q","R","S","T","U","V","W","X","Y",
     "Z"}
Digits == {"0","1","2","3","4","5","6","7","8","9"}
WordChars == Letters \cup Digits \cup {"_"}
WordPunct == WordChars \cup {"!", "\"", "'", "&", ".", ",", "?"}

\* t[i], or "" outside the string
At(t, i) == IF i \in 1..Len(t) THEN t[i] ELSE ""

\* c * n
Rep(c, n) == [i \in 1..n |-> c]

Max(a, b) == IF a > b THEN a ELSE b

RECURSIVE Concat(_)
\* ''.join(parts)
Concat(parts) ==
    IF parts = <<>> THEN <<>> ELSE Head(parts) \o Concat(Tail(parts))

RECURSIVE SumLen(_)
\* sum(map(len, parts))
SumLen(parts) ==
    IF parts = <<>> THEN 0 ELSE Len(Head(parts)) + SumLen(Tail(parts))

\* s.strip() == ''
IsBlank(s) == \A i \in 1..Len(s) : s[i] \in Whitespace

\* s.split(): the maximal runs of non-whitespace characters, in order
split(s) ==
    LET starts == {i \in 1..Len(s) :
                      s[i] \notin Whitespace
                      /\ (i = 1 \/ s[i - 1] \in Whitespace)}
        ends == {i \in 1..Len(s) :
                    s[i] \notin Whitespace
                    /\ (i = Len(s) \/ s[i + 1] \in Whitespace)}
        nth(S, n) == CHOOSE i \in S : Cardinality({j \in S : j < i}) = n - 1
    IN  [n \in 1..Cardinality(starts) |->
            SubSeq(s, nth(starts, n), nth(ends, n))]

RECURSIVE join(_, _)
\* sep.join(words)
join(sep, words) ==
    IF words = <<>> THEN <<>>
    ELSE IF Len(words) = 1 THEN words[1]
    ELSE words[1] \o sep \o join(sep, Tail(words))

\* s.replace(old, new) for one-character old and new
replace(s, old, new) == [i \in 1..Len(s) |-> IF s[i] = old THEN new ELSE s[i]]

\* CPython's str.center: the string as it is when it already fills width,
\* else left = marg / 2 + (marg & width & 1) fill characters before it and
\* the rest after it
center(s, width, fillchar) ==
    LET marg == width - Len(s)
        left == (marg \div 2) +
                (IF marg % 2 = 1 /\ width % 2 = 1 THEN 1 ELSE 0)
    IN  IF marg <= 0 THEN s
        ELSE Rep(fillchar, left) \o s \o Rep(fillchar, marg - left)

---------------------------------------------------------------------------
(* textwrap.wrap(text, width), with TextWrapper's defaults:                *)
(* break_long_words, break_on_hyphens, drop_whitespace                     *)

RECURSIVE hyphen_run(_, _)
\* how many '-' start at t[q]
hyphen_run(t, q) == IF At(t, q) = "-" THEN 1 + hyphen_run(t, q + 1) ELSE 0

\* (?<=[\w!"'&.,?]) (?=-{2,}\w) at position q
em_dash(t, q) ==
    /\ At(t, q - 1) \in WordPunct
    /\ hyphen_run(t, q) >= 2
    /\ At(t, q + hyphen_run(t, q)) \in WordChars

\* -(?: (?<=lt{2}-) | (?<=lt-lt-)) (?= lt -? lt) with the '-' at position q
hyphenated(t, q) ==
    /\ At(t, q) = "-"
    /\ \/ At(t, q - 2) \in Letters /\ At(t, q - 1) \in Letters
       \/ /\ At(t, q - 3) \in Letters
          /\ At(t, q - 2) = "-"
          /\ At(t, q - 1) \in Letters
    /\ At(t, q + 1) \in Letters
    /\ \/ At(t, q + 2) = "-" /\ At(t, q + 3) \in Letters
       \/ At(t, q + 2) \in Letters

RECURSIVE whitespace_end(_, _)
whitespace_end(t, q) ==
    IF At(t, q) \in Whitespace THEN whitespace_end(t, q + 1) ELSE q

RECURSIVE word_end(_, _)
\* the lazy [^ws]+? of wordsep_re: the first q at which one of its three
\* endings matches
word_end(t, q) ==
    IF hyphenated(t, q) THEN q + 1
    ELSE IF q > Len(t) \/ At(t, q) \in Whitespace THEN q
    ELSE IF em_dash(t, q) THEN q
    ELSE word_end(t, q + 1)

\* where the chunk that starts at t[p] ends (the index after it)
chunk_end(t, p) ==
    IF At(t, p) \in Whitespace THEN whitespace_end(t, p)
    ELSE IF em_dash(t, p) THEN p + hyphen_run(t, p)
    ELSE word_end(t, p + 1)

RECURSIVE split_chunks(_, _)
split_chunks(t, p) ==
    IF p > Len(t) THEN <<>>
    ELSE LET e == chunk_end(t, p)
         IN  <<SubSeq(t, p, e - 1)>> \o split_chunks(t, e)

\* TextWrapper._split: wordsep_re.split(text) without the empty chunks
wordsep_split(t) == split_chunks(t, 1)

RECURSIVE take_fitting(_, _, _)
\* the inner while of _wrap_chunks: chunks go onto the current line while
\* they fit
take_fitting(chunks, cur_line, width) ==
    IF chunks # <<>> /\ SumLen(cur_line) + Len(Head(chunks)) <= width
    THEN take_fitting(Tail(chunks), Append(cur_line, Head(chunks)), width)
    ELSE [cur_line |-> cur_line, chunks |-> chunks]

\* chunk.rfind('-', 0, stop), as a 0-based index, -1 when there is none
rfind_hyphen(chunk, stop) ==
    LET at == {k \in 1..Len(chunk) : k <= stop /\ chunk[k] = "-"}
    IN  IF at = {} THEN -1 ELSE (CHOOSE k \in at : \A j \in at : j <= k) - 1

\* A handle_long_word that leaves the long word whole on a line of its own
handle_long_word_unbroken(chunks, cur_line, width) ==
    IF cur_line = <<>>
    THEN [cur_line |-> <<Head(chunks)>>, chunks |-> Tail(chunks)]
    ELSE [cur_line |-> cur_line, chunks |-> chunks]

\* TextWrapper._handle_long_word: the first chunk is longer than width
handle_long_word(chunks, cur_line, width) ==
    LET space_left == IF width < 1 THEN 1 ELSE width - SumLen(cur_line)
        chunk == Head(chunks)
        hyphen == rfind_hyphen(chunk, space_left)
        end == IF /\ Len(chunk) > space_left
                  /\ hyphen > 0
                  /\ \E k \in 1..hyphen : chunk[k] # "-"
               THEN hyphen + 1
               ELSE space_left
    IN  [cur_line |-> Append(cur_line, SubSeq(chunk, 1, end)),
         chunks |-> <<SubSeq(chunk, end + 1, Len(chunk))>> \o Tail(chunks)]

RECURSIVE wrap_chunks(_, _, _)
\* TextWrapper._wrap_chunks, one line per round
wrap_chunks(chunks, lines, width) ==
    IF chunks = <<>> THEN lines
    ELSE LET rest == IF IsBlank(Head(chunks)) /\ lines # <<>>
                     THEN Tail(chunks) ELSE chunks
             f == take_fitting(rest, <<>>, width)
             h == IF f.chunks # <<>> /\ Len(Head(f.chunks)) > width
                  THEN handle_long_word(f.chunks, f.cur_line, width)
                  ELSE f
             cur_line == IF h.cur_line # <<>> /\
                            IsBlank(h.cur_line[Len(h.cur_line)])
                         THEN SubSeq(h.cur_line, 1, Len(h.cur_line) - 1)
                         ELSE h.cur_line
         IN  wrap_chunks(h.chunks,
                         IF cur_line # <<>>
                         THEN Append(lines, Concat(cur_line)) ELSE lines,
                         width)

\* textwrap.wrap(text, width): "invalid width (must be > 0)" otherwise
wrap(text, width) ==
    IF width <= 0 THEN ValueError
    ELSE wrap_chunks(wordsep_split(text), <<>>, width)

---------------------------------------------------------------------------
(* Flashcard *)

\* format_data with the wrap width one too small
format_data_narrow(text, length) ==
    wrap(join(<<" ">>, split(text)), length - 6)

\* Flashcard.format_data
format_data(text, length) ==
    LET joined == join(<<" ">>, split(text))
        words_in_line == replace(replace(joined, "\n", " "), "\t", " ")
    IN  wrap(words_in_line, length - 5)

\* A style_on_line that centers the text and then puts one border
\* character before it and one after it
style_on_line_concat(text, length, border) ==
    <<border>> \o center(text, length - 2, " ") \o <<border>>

\* A style_on_line whose inner centering always puts the odd space right
style_on_line_floor(text, length, border) ==
    LET marg == (length - 2) - Len(text)
        inner == IF marg <= 0 THEN text
                 ELSE Rep(" ", marg \div 2) \o text
                      \o Rep(" ", marg - (marg \div 2))
    IN  center(inner, length, border)

\* Flashcard.style_on_line
style_on_line(text, length, border) ==
    center(center(text, length - 2, " "), length, border)

\* the parameters of Flashcard.__init__
InitParams ==
    {"topic", "content", "keywords", "max_card_width", "min_content_height"}

\* A Flashcard(**data) that takes any further key (**kwargs)
CanConstruct_any_key(data) == {"topic", "content"} \subseteq DOMAIN data

\* Flashcard(**data) binds: no key but a parameter's name, and both
\* parameters without a default; TypeError otherwise
CanConstruct(data) ==
    /\ DOMAIN data \subseteq InitParams
    /\ {"topic", "content"} \subseteq DOMAIN data

\* Flashcard.__init__; id is the identity of the object, the record's
\* place in the file
Flashcard(data, id) ==
    [id |-> id,
     max_card_width |-> IF "max_card_width" \in DOMAIN data
                        THEN data.max_card_width ELSE MAX_WIDTH,
     min_content_height |-> IF "min_content_height" \in DOMAIN data
                            THEN data.min_content_height
                            ELSE MIN_CONTENT_HEIGHT,
     topic |-> data.topic,
     content |-> data.content,
     keywords |-> IF "keywords" \in DOMAIN data THEN data.keywords ELSE None,
     hide_content |-> TRUE]

\* [self.style_on_line(l, self.max_card_width) for l in lines]
style_lines(self, lines) ==
    [i \in 1..Len(lines) |->
        style_on_line(lines[i], self.max_card_width, BORDER)]

\* Flashcard.get_topic
get_topic(self) ==
    LET formatted == format_data(self.topic, self.max_card_width)
    IN  IF formatted = ValueError THEN ValueError
        ELSE style_lines(self, << <<>> >> \o formatted \o << <<>> >>)

\* Flashcard.get_content
get_content(self) ==
    LET formatted_content == format_data(self.content, self.max_card_width)
        shown == IF self.hide_content
                 THEN format_data(initial_content, self.max_card_width)
                 ELSE formatted_content
        content_lines == << <<>> >> \o shown \o << <<>> >>
        current_height == Len(content_lines)
        expected_height == Len(formatted_content)
        min_height == self.min_content_height
        wanted == IF expected_height > min_height
                  THEN expected_height ELSE min_height
        height == IF current_height > wanted THEN current_height ELSE wanted
    IN  IF formatted_content = ValueError THEN ValueError
        ELSE style_lines(self,
                 content_lines \o Rep(<<>>, height - current_height))

\* Flashcard.get_keywords
get_keywords(self) ==
    LET formatted == format_data(self.keywords, self.max_card_width)
    IN  IF formatted = ValueError THEN ValueError
        ELSE style_lines(self, << <<>> >> \o formatted \o << <<>> >>)

\* border * self.max_card_width
horizontal_border(self) == Rep(BORDER, self.max_card_width)

\* bool(self.keywords): None and '' are false
Truthy(keywords) == keywords # None /\ keywords # <<>>

\* A get_lines_to_draw that tests "self.keywords is not None"
get_lines_to_draw_not_none(self) ==
    LET hb == horizontal_border(self)
    IN  IF get_topic(self) = ValueError THEN ValueError
        ELSE << <<"\n">>, hb >> \o get_topic(self) \o <<hb, hb>>
             \o get_content(self)
             \o (IF self.keywords # None
                 THEN <<hb, hb>> \o get_keywords(self) ELSE <<>>)
             \o <<hb>>

\* Flashcard.get_lines_to_draw
get_lines_to_draw(self) ==
    LET hb == horizontal_border(self)
    IN  IF get_topic(self) = ValueError THEN ValueError
        ELSE << <<"\n">>, hb >> \o get_topic(self) \o <<hb, hb>>
             \o get_content(self)
             \o (IF Truthy(self.keywords)
                 THEN <<hb, hb>> \o get_keywords(self) ELSE <<>>)
             \o <<hb>>

---------------------------------------------------------------------------
(* The session: start, run_flashcards, Flashcard.run, Flashcard.draw *)

Event(ev, self, lines) == [ev |-> ev, card |-> self.id, lines |-> lines]

\* the longest prefix of the records that Flashcard(**data) accepts
RECURSIVE constructed(_, _)
constructed(data, i) ==
    IF i > Len(data) \/ ~CanConstruct(data[i]) THEN <<>>
    ELSE <<Flashcard(data[i], i)>> \o constructed(data, i + 1)

\* start: one Flashcard per record, in file order; the first record that
\* Flashcard(**data) rejects ends the process with a TypeError
start ==
    /\ pc = "start"
    /\ flashcards' = constructed(records, 1)
    /\ pc' = IF \A i \in 1..Len(records) : CanConstruct(records[i])
             THEN "run_flashcards" ELSE "error"
    /\ UNCHANGED <<records, ordered, fc, pass, events,
                   line, max_length, result>>

\* the orders random.shuffle may leave a list of n elements in
Shuffles(n) == {p \in [1..n -> 1..n] : \A i, j \in 1..n : p[i] = p[j] => i = j}

\* run_flashcards up to the first fc.run()
run_flashcards ==
    /\ pc = "run_flashcards"
    /\ \E p \in Shuffles(Len(flashcards)) :
          /\ ordered => \A i \in 1..Len(flashcards) : p[i] = i
          /\ flashcards' = [i \in 1..Len(flashcards) |-> flashcards[p[i]]]
    /\ fc' = 1
    /\ pass' = 0
    /\ pc' = IF flashcards = <<>> THEN "done" ELSE "clean"
    /\ UNCHANGED <<records, ordered, events, line, max_length, result>>

\* Flashcard.clean
clean ==
    /\ pc = "clean"
    /\ events' = Append(events, Event("clear", flashcards[fc], <<>>))
    /\ pc' = "draw"
    /\ UNCHANGED <<records, ordered, flashcards, fc, pass,
                   line, max_length, result>>

\* A draw that flips hide_content before it computes the lines
draw_flip_first ==
    /\ pc = "draw"
    /\ LET self == [flashcards[fc] EXCEPT !.hide_content = ~@]
           lines == get_lines_to_draw(self)
       IN  IF lines = ValueError
           THEN /\ pc' = "error"
                /\ UNCHANGED <<flashcards, events>>
           ELSE /\ events' = Append(events, Event("draw", self, lines))
                /\ flashcards' = [flashcards EXCEPT ![fc] = self]
                /\ pc' = "input"
    /\ UNCHANGED <<records, ordered, fc, pass, line, max_length, result>>

\* Flashcard.draw: a ValueError of get_lines_to_draw ends the process
\* before anything is printed
draw ==
    /\ pc = "draw"
    /\ LET self == flashcards[fc]
           lines == get_lines_to_draw(self)
       IN  IF lines = ValueError
           THEN /\ pc' = "error"
                /\ UNCHANGED <<flashcards, events>>
           ELSE /\ events' = Append(events, Event("draw", self, lines))
                /\ flashcards' =
                       [flashcards EXCEPT ![fc].hide_content = ~@]
                /\ pc' = "input"
    /\ UNCHANGED <<records, ordered, fc, pass, line, max_length, result>>

\* Flashcard.run
run == clean \/ draw

\* An input() after which the second pass starts without fc.run()'s clean
input_no_clean ==
    /\ pc = "input"
    /\ events' = Append(events, Event("ack", flashcards[fc], <<>>))
    /\ IF pass = 0
       THEN pass' = 1 /\ pc' = "draw" /\ fc' = fc
       ELSE IF fc < Len(flashcards)
            THEN fc' = fc + 1 /\ pass' = 0 /\ pc' = "clean"
            ELSE pc' = "done" /\ UNCHANGED <<fc, pass>>
    /\ UNCHANGED <<records, ordered, flashcards, line, max_length, result>>

\* An input() after which the loop goes on with the next card at once
input_one_pass ==
    /\ pc = "input"
    /\ events' = Append(events, Event("ack", flashcards[fc], <<>>))
    /\ IF fc < Len(flashcards)
       THEN fc' = fc + 1 /\ pass' = 0 /\ pc' = "clean"
       ELSE pc' = "done" /\ UNCHANGED <<fc, pass>>
    /\ UNCHANGED <<records, ordered, flashcards, line, max_length, result>>

\* input() returns with the user's line, and the loops of run_flashcards
\* go on: the second pass of the card, the next card, or the end
input ==
    /\ pc = "input"
    /\ events' = Append(events, Event("ack", flashcards[fc], <<>>))
    /\ IF pass = 0
       THEN pass' = 1 /\ pc' = "clean" /\ fc' = fc
       ELSE IF fc < Len(flashcards)
            THEN fc' = fc + 1 /\ pass' = 0 /\ pc' = "clean"
            ELSE pc' = "done" /\ UNCHANGED <<fc, pass>>
    /\ UNCHANGED <<records, ordered, flashcards, line, max_length, result>>

\* "Capital of France"
CapitalOfFrance ==
    <<"C","a","p","i","t","a","l"," ","o","f"," ","F","r","a","n","c","e">>

\* "Paris"
Paris == <<"P","a","r","i","s">>

\* "geography"
geography == <<"g","e","o","g","r","a","p","h","y">>

\* the records a file may hold: well-formed ones, with and without the
\* optional keys, and ones Flashcard(**data) rejects
FileRecords ==
    {[topic |-> CapitalOfFrance, content |-> Paris, keywords |-> geography],
     [topic |-> CapitalOfFrance, content |-> Paris],
     [topic |-> <<"a">>, content |-> <<"b", "\n", "c">>,
      max_card_width |-> 12],
     [topic |-> <<"a">>, content |-> <<"b">>, min_content_height |-> 2],
     [topic |-> <<"a">>, content |-> <<"b">>, hint |-> <<"c">>],
     [topic |-> <<"a">>],
     [content |-> <<"b">>]}

Init ==
    /\ pc = "start"
    /\ records \in UNION {[1..n -> FileRecords] : n \in 0..MaxCards}
    /\ ordered \in BOOLEAN
    /\ flashcards = <<>>
    /\ fc = 0 /\ pass = 0 /\ events = <<>>
    /\ line = <<>> /\ max_length = 0 /\ result = <<>>

Next == start \/ run_flashcards \/ run \/ input

Spec == Init /\ [][Next]_vars

\* a step of the program itself: everything but the return of input()
ProgramStep == start \/ run_flashcards \/ run

\* the positions from which the program itself steps (ENABLED ProgramStep)
Running == pc \in {"start", "run_flashcards", "clean", "draw"}

\* Every input() is answered (weak fairness of input), and the program
\* goes on whenever it is not waiting (weak fairness of ProgramStep, with
\* its ENABLED written out as Running): the process is single-threaded and
\* nothing but input() blocks it.
FairSpec ==
    /\ Spec
    /\ WF_vars(input)
    /\ ([]<>(~Running) \/ []<><<ProgramStep>>_vars)

---------------------------------------------------------------------------
(* The layout functions applied to arguments of their own *)

Chars == {"a", "-", " ", "\n"}

Texts == UNION {[1..n -> Chars] : n \in 0..MaxLen}

Lengths == 0..MaxLength

InitFormat ==
    /\ pc = "format_data"
    /\ line \in Texts
    /\ max_length \in Lengths
    /\ result = <<>>
    /\ records = <<>> /\ ordered = TRUE /\ flashcards = <<>>
    /\ fc = 0 /\ pass = 0 /\ events = <<>>

InitStyle ==
    /\ pc = "style_on_line"
    /\ line \in Texts
    /\ max_length \in Lengths
    /\ result = <<>>
    /\ records = <<>> /\ ordered = TRUE /\ flashcards = <<>>
    /\ fc = 0 /\ pass = 0 /\ events = <<>>

CallFormatData ==
    /\ pc = "format_data"
    /\ result' = format_data(line, max_length)
    /\ pc' = "formatted"
    /\ UNCHANGED <<records, ordered, flashcards, fc, pass, events,
                   line, max_length>>

CallStyleOnLine ==
    /\ pc = "style_on_line"
    /\ result' = style_on_line(line, max_length, BORDER)
    /\ pc' = "styled"
    /\ UNCHANGED <<records, ordered, flashcards, fc, pass, events,
                   line, max_length>>

\* the content, topic and keywords texts of the cards laid out
CardTexts == UNION {[1..n -> Chars] : n \in 0..MaxContentLen}

\* n words that each fill a line of the default layout
LongContent(n) ==
    join(<<" ">>, [i \in 1..n |-> Rep("a", MAX_WIDTH - 5)])

\* Flashcard(...) arguments: every short content under small layouts,
\* every short keywords text, and long contents under the default layout
LayoutCards ==
    {[topic |-> <<"a">>, content |-> c,
      max_card_width |-> w, min_content_height |-> h] :
        c \in CardTexts, w \in 5..MaxCardWidth, h \in 0..MaxMinHeight}
    \cup
    {[topic |-> <<"a">>, content |-> <<"b">>, keywords |-> k,
      max_card_width |-> w] :
        k \in CardTexts, w \in 5..MaxCardWidth}
    \cup
    {[topic |-> <<"a">>, content |-> LongContent(n)] : n \in 0..MaxLongLines}

InitCard ==
    /\ pc = "run_flashcards"
    /\ records \in {<<data>> : data \in LayoutCards}
    /\ flashcards = <<Flashcard(records[1], 1)>>
    /\ ordered = TRUE
    /\ fc = 0 /\ pass = 0 /\ events = <<>>
    /\ line = <<>> /\ max_length = 0 /\ result = <<>>

InitLayout == InitFormat \/ InitStyle \/ InitCard

NextLayout ==
    CallFormatData \/ CallStyleOnLine \/ run_flashcards \/ run \/ input

SpecLayout == InitLayout /\ [][NextLayout]_vars

---------------------------------------------------------------------------
(* Properties of format_data *)

\* line after ' '.join(line.split())
Collapsed == join(<<" ">>, split(line))

\* the words of the returned lines, in order
WordsOfLines(lines) == Concat([i \in 1..Len(lines) |-> split(lines[i])])

Returned == pc = "formatted" /\ result # ValueError

\* every word fits the wrap width and holds no hyphen
WordsFitUnhyphenated ==
    \A i \in 1..Len(split(line)) :
        /\ Len(split(line)[i]) <= max_length - 5
        /\ \A k \in 1..Len(split(line)[i]) : split(line)[i][k] # "-"

\* C5 as claimed: for every non-empty text and every width, the returned
\* lines hold every word of the text whole, each in exactly one line, and
\* joined with single spaces they are the whitespace-collapsed text.
C5_NoWordSplit ==
    (Returned /\ Collapsed # <<>>) =>
        /\ WordsOfLines(result) = split(line)
        /\ join(<<" ">>, result) = Collapsed

\* C5 amended: for every non-empty text whose words all have at most
\* width - 5 characters and no hyphen, format_data returns lines that hold
\* every word whole, each in exactly one line, and that joined with single
\* spaces are the whitespace-collapsed text.
C5_NoFittingWordSplit ==
    (pc = "formatted" /\ Collapsed # <<>> /\ WordsFitUnhyphenated) =>
        /\ result # ValueError
        /\ WordsOfLines(result) = split(line)
        /\ join(<<" ">>, result) = Collapsed

C5_Witness ==
    /\ pc = "formatted"
    /\ WordsFitUnhyphenated
    /\ Len(split(line)) >= 2
    /\ Len(result) >= 2
    /\ line # Collapsed

\* C6 as claimed: for every width each returned line has at most width - 5
\* characters, and a text that is empty after whitespace collapsing gives
\* the empty list.
C6_LineLength ==
    pc = "formatted" =>
        /\ Returned =>
               \A i \in 1..Len(result) : Len(result[i]) <= max_length - 5
        /\ Collapsed = <<>> => result = <<>>

\* C6 amended: for every width of at least 6 each returned line has at
\* most width - 5 characters and a text that is empty after whitespace
\* collapsing gives the empty list; for a width of 5 or less format_data
\* raises ValueError for every text, the empty one included.
C6_LineLengthOrValueError ==
    pc = "formatted" =>
        IF max_length - 5 >= 1
        THEN /\ result # ValueError
             /\ \A i \in 1..Len(result) : Len(result[i]) <= max_length - 5
             /\ Collapsed = <<>> => result = <<>>
        ELSE result = ValueError

C6_Witness ==
    /\ Returned
    /\ \E i \in 1..Len(split(line)) : Len(split(line)[i]) > max_length - 5
    /\ Len(result) >= 2
    /\ \E i \in 1..Len(result) : Len(result[i]) = max_length - 5

---------------------------------------------------------------------------
(* Properties of style_on_line *)

\* the spaces style_on_line has to add inside the border
Padding == (max_length - 2) - Len(line)

OddPadding == pc = "styled" /\ Padding > 0 /\ Padding % 2 = 1

\* line with left spaces before it, the rest of the padding after it, and
\* one border character on each side
Framed(left) ==
    <<BORDER>> \o Rep(" ", left) \o line \o Rep(" ", Padding - left)
        \o <<BORDER>>

\* C10 as claimed: with an odd number of padding spaces the extra space is
\* on the right whatever the width, and there is one border character on
\* each side.
C10_ExtraSpaceRight == OddPadding => result = Framed(Padding \div 2)

\* C10 amended: with an odd number of padding spaces the extra space is on
\* the right when the width is even and on the left when the width is odd;
\* in both cases there is one border character on each side.
C10_ExtraSpaceByParity ==
    OddPadding =>
        result = Framed((Padding \div 2) +
                        (IF max_length % 2 = 1 THEN 1 ELSE 0))

C10_Witness ==
    /\ OddPadding
    /\ max_length % 2 = 1
    /\ line # <<>>
    /\ line[1] = "a" /\ line[Len(line)] = "a"
    /\ result = Framed((Padding \div 2) + 1)
    /\ result # Framed(Padding \div 2)

---------------------------------------------------------------------------
(* Properties of the cards drawn *)

\* the draw events, in the order they were printed
Draws ==
    LET IsDraw(e) == e.ev = "draw" IN SelectSeq(events, IsDraw)

\* the lines each draw of the card printed, in order
DrawsOf(id) ==
    LET IsDrawOf(e) == e.ev = "draw" /\ e.card = id
        drawn == SelectSeq(events, IsDrawOf)
    IN  [k \in 1..Len(drawn) |-> drawn[k].lines]

\* the card object with this identity
CardOf(id) ==
    flashcards[CHOOSE k \in 1..Len(flashcards) : flashcards[k].id = id]

\* how many of the lines are full-width border lines
NBorders(lines, self) ==
    Cardinality({k \in 1..Len(lines) : lines[k] = horizontal_border(self)})

\* C1: the hidden and the revealed draw of a card print the same number
\* of lines (the content block has the same height in both).
C1_SameHeightHiddenAndRevealed ==
    \A i, j \in 1..Len(Draws) :
        Draws[i].card = Draws[j].card =>
            Len(Draws[i].lines) = Len(Draws[j].lines)

\* the lines end with the keywords section: two border lines, the
\* keywords block, the final border line
KeywordsSectionDrawn(lines, self) ==
    LET hb == horizontal_border(self)
        block == get_keywords(self)
        n == Len(lines)
        m == Len(block)
    IN  /\ NBorders(lines, self) = 6
        /\ n >= m + 3
        /\ SubSeq(lines, n - m - 2, n) = <<hb, hb>> \o block \o <<hb>>

\* the content block is followed by the final border line alone
NoKeywordsSectionDrawn(lines, self) ==
    /\ NBorders(lines, self) = 4
    /\ lines[Len(lines)] = horizontal_border(self)
    /\ lines[Len(lines) - 1] # horizontal_border(self)

\* C8 as claimed: the lines drawn hold the keywords section if and only if
\* keywords was supplied (is not None), the empty string included.
C8_SectionIffSupplied ==
    \A i \in 1..Len(Draws) :
        LET self == CardOf(Draws[i].card)
        IN  IF self.keywords # None
            THEN KeywordsSectionDrawn(Draws[i].lines, self)
            ELSE NoKeywordsSectionDrawn(Draws[i].lines, self)

\* C8 amended: whenever get_lines_to_draw returns, its lines hold the
\* keywords section if and only if keywords is a non-empty string; with
\* keywords absent or the empty string the content block is followed by
\* the final border line alone.
C8_SectionIffNonEmpty ==
    \A i \in 1..Len(Draws) :
        LET self == CardOf(Draws[i].card)
        IN  IF self.keywords # None /\ Len(self.keywords) > 0
            THEN KeywordsSectionDrawn(Draws[i].lines, self)
            ELSE NoKeywordsSectionDrawn(Draws[i].lines, self)

C8_Witness ==
    /\ Len(Draws) = 2
    /\ CardOf(Draws[1].card).keywords = <<>>
    /\ NoKeywordsSectionDrawn(Draws[2].lines, CardOf(Draws[1].card))

\* every line drawn after the leading marker line is max_card_width long
DrawnLinesFullWidth ==
    \A i \in 1..Len(Draws) :
        \A k \in 2..Len(Draws[i].lines) :
            Len(Draws[i].lines[k]) = CardOf(Draws[i].card).max_card_width

\* C7 as claimed: style_on_line returns a string of exactly max_length
\* characters for every line, and so every line drawn after the marker
\* line has exactly max_card_width characters.
C7_ExactWidth ==
    /\ pc = "styled" => Len(result) = max_length
    /\ DrawnLinesFullWidth

\* C7 amended: style_on_line returns a string of max(len(line),
\* max_length) characters, which is exactly max_length when the line has
\* at most max_length characters; every line drawn after the marker line
\* has exactly max_card_width characters.
C7_WidthOrLineLength ==
    /\ pc = "styled" => Len(result) = Max(Len(line), max_length)
    /\ DrawnLinesFullWidth

C7_Witness ==
    /\ pc = "styled"
    /\ Len(line) > max_length
    /\ max_length > 2
    /\ result = line

---------------------------------------------------------------------------
(* Properties of the session *)

\* where the shown text starts in the lines drawn: after the marker line,
\* a border line, the topic block, two border lines and a blank line
ShownFrom(self) == Len(get_topic(self)) + 6

\* the content block drawn shows this text
Shows(lines, self, text) ==
    LET shown == style_lines(self, format_data(text, self.max_card_width))
    IN  SubSeq(lines, ShownFrom(self), ShownFrom(self) + Len(shown) - 1)
            = shown

\* C2: a card starts hidden and each draw flips hide_content once, after
\* the lines were computed and printed: the flag is the parity of the
\* draws so far whatever other steps were taken, the first draw shows the
\* placeholder and not the content, the second draw shows the content.
C2_FlipAfterEachDraw ==
    \A k \in 1..Len(flashcards) :
        LET self == flashcards[k]
            drawn == DrawsOf(self.id)
        IN  /\ self.hide_content = (Len(drawn) % 2 = 0)
            /\ Len(drawn) >= 1 =>
                   /\ Shows(drawn[1], self, initial_content)
                   /\ ~Shows(drawn[1], self, self.content)
            /\ Len(drawn) >= 2 => Shows(drawn[2], self, self.content)

C2_Witness ==
    /\ pc = "done"
    /\ Len(flashcards) = 2
    /\ \A k \in 1..2 :
          /\ Len(DrawsOf(flashcards[k].id)) = 2
          /\ flashcards[k].hide_content

\* what the terminal sees of one card
CardEvents(self) ==
    LET hidden == [self EXCEPT !.hide_content = TRUE]
        revealed == [self EXCEPT !.hide_content = FALSE]
    IN  <<Event("clear", self, <<>>),
          Event("draw", self, get_lines_to_draw(hidden)),
          Event("ack", self, <<>>),
          Event("clear", self, <<>>),
          Event("draw", self, get_lines_to_draw(revealed)),
          Event("ack", self, <<>>)>>

\* what the terminal sees of the whole list, in the order of the list
SessionEvents ==
    Concat([k \in 1..Len(flashcards) |-> CardEvents(flashcards[k])])

\* the events a loop position has behind it
EventsBefore ==
    6 * (fc - 1) + 3 * pass +
    (CASE pc = "clean" -> 0
       [] pc = "draw" -> 1
       [] pc = "input" -> 2
       [] OTHER -> IF flashcards = <<>> THEN 0 ELSE 3)

\* C3: for every card the terminal sees exactly clear, hidden draw,
\* acknowledgment, clear, revealed draw, acknowledgment, card after card;
\* the program waits in input() exactly after each draw.
C3_EventOrder ==
    pc \in {"clean", "draw", "input", "done"} =>
        /\ Len(events) = EventsBefore
        /\ events = SubSeq(SessionEvents, 1, Len(events))

C3_Witness ==
    /\ pc = "done"
    /\ Len(flashcards) = 2
    /\ Len(events) = 12
    /\ events[7].card # events[6].card

\* every card of the file went through its two draws once, in list order
AllCardsPassed ==
    /\ Len(flashcards) = Len(records)
    /\ {flashcards[k].id : k \in 1..Len(flashcards)} = 1..Len(records)
    /\ ordered => \A k \in 1..Len(flashcards) : flashcards[k].id = k
    /\ Len(Draws) = 2 * Len(records)
    /\ \A k \in 1..Len(flashcards) :
          /\ Draws[2 * k - 1].card = flashcards[k].id
          /\ Draws[2 * k].card = flashcards[k].id

FileKeys == {"topic", "content", "keywords"}

\* the outcome of loading: every record has its keys within allowed and
\* holds topic and content, and there is one card per record; or the
\* process has ended before anything was cleared or drawn
LoadedOrEnded(allowed) ==
    IF \A i \in 1..Len(records) :
           /\ DOMAIN records[i] \subseteq allowed
           /\ {"topic", "content"} \subseteq DOMAIN records[i]
    THEN pc # "error" /\ Len(flashcards) = Len(records)
    ELSE pc = "error" /\ events = <<>>

\* C9 as claimed: a record with a key other than topic, content and
\* keywords, a layout parameter's name included, or without topic or
\* content ends the process before any card is displayed; all other files
\* give one card per record.
C9_OnlyFileKeys == pc # "start" => LoadedOrEnded(FileKeys)

\* C9 amended: a record with a key other than topic, content, keywords,
\* max_card_width and min_content_height, or without topic or content,
\* ends the process before any card is displayed; all other files give one
\* card per record. A max_card_width or min_content_height key is taken
\* as the card's layout parameter.
C9_OnlyInitParams ==
    pc # "start" =>
        /\ LoadedOrEnded(FileKeys \cup
                         {"max_card_width", "min_content_height"})
        /\ \A k \in 1..Len(flashcards) :
              LET data == records[flashcards[k].id]
              IN  "max_card_width" \in DOMAIN data =>
                      flashcards[k].max_card_width = data.max_card_width

C9_Witness ==
    /\ pc = "error"
    /\ Len(records) = 2
    /\ "max_card_width" \in DOMAIN records[1]
    /\ "hint" \in DOMAIN records[2]
    /\ Len(flashcards) = 1
    /\ flashcards[1].max_card_width = 12

=============================================================================
